---- MODULE Spec2Model ----
(***************************************************************************)
(* The CASM instruction model of crates/cairo-lang-casm/src/instructions.rs *)
(* InstructionBody and Instruction, the word size of a body (op_size), the  *)
(* text rendering of an instruction (Display) and the derived equality.     *)
(*                                                                          *)
(* Text is a sequence of one-character strings.                             *)
(***************************************************************************)
EXTENDS Integers, Sequences, FiniteSets

\* The most hints attached to one instruction.
MaxHints == 2
\* The most instructions the layout pass places in one program.
MaxProgram == 2

(***************************************************************************)
(* Operands (crate::operand, used through its variants and its Display).    *)
(***************************************************************************)

\* CellRef: a register and an offset.
CellRef == {[register |-> "ap", offset |-> 0], [register |-> "fp", offset |-> -1]}

\* The values of an immediate.
ImmediateValues == {0, 17}

\* DerefOrImmediate::Deref(CellRef) | DerefOrImmediate::Immediate(value).
DerefOrImmediate ==
    [kind : {"Deref"}, cell : CellRef] \cup [kind : {"Immediate"}, value : ImmediateValues]

\* The operand of ResOperand::BinOp: an operation and two sub-operands, of
\* which the source reads only the right one, b.
BinOpOperand == [op : {"Add", "Mul"}, a : DerefOrImmediate, b : DerefOrImmediate]

\* ResOperand::Deref | DoubleDeref | Immediate | BinOp.
ResOperand ==
    [kind : {"Deref"}, cell : CellRef]
        \cup [kind : {"DoubleDeref"}, cell : CellRef, offset : {1}]
        \cup [kind : {"Immediate"}, value : ImmediateValues]
        \cup [kind : {"BinOp"}, op : BinOpOperand]

(***************************************************************************)
(* The instruction payloads and InstructionBody.                            *)
(***************************************************************************)

AddApInstruction == [operand : ResOperand]

AssertEqInstruction == [a : CellRef, b : ResOperand]

CallInstruction == [target : DerefOrImmediate, relative : BOOLEAN]

JumpInstruction == [target : DerefOrImmediate, relative : BOOLEAN]

JnzInstruction == [jump_offset : DerefOrImmediate, condition : CellRef]

Blake2sCompressInstruction ==
    [state : CellRef, byte_count : CellRef, message : CellRef, finalize : BOOLEAN]

InstructionBody ==
    [tag : {"AddAp"}, insn : AddApInstruction]
        \cup [tag : {"AssertEq", "QM31AssertEq"}, insn : AssertEqInstruction]
        \cup [tag : {"Call"}, insn : CallInstruction]
        \cup [tag : {"Jnz"}, insn : JnzInstruction]
        \cup [tag : {"Jump"}, insn : JumpInstruction]
        \cup {[tag |-> "Ret"]}
        \cup [tag : {"Blake2sCompress"}, insn : Blake2sCompressInstruction]

(***************************************************************************)
(* op_size.                                                                 *)
(***************************************************************************)

\* A call sized with a word for the address whenever it is absolute.
CallInstruction_op_size_AbsWide(insn) ==
    IF insn.relative
    THEN (CASE insn.target.kind = "Deref" -> 1
            [] insn.target.kind = "Immediate" -> 2)
    ELSE 2

CallInstruction_op_size(insn) ==
    CASE insn.target.kind = "Deref" -> 1
      [] insn.target.kind = "Immediate" -> 2

JumpInstruction_op_size(insn) ==
    CASE insn.target.kind = "Deref" -> 1
      [] insn.target.kind = "Immediate" -> 2

\* A jnz sized with one word more for its condition cell.
JnzInstruction_op_size_WithCondition(insn) ==
    1 + (CASE insn.jump_offset.kind = "Deref" -> 1
           [] insn.jump_offset.kind = "Immediate" -> 2)

JnzInstruction_op_size(insn) ==
    CASE insn.jump_offset.kind = "Deref" -> 1
      [] insn.jump_offset.kind = "Immediate" -> 2

\* The size with both sub-operands of a BinOp counted: an immediate on either
\* side makes it 2.
op_size_either_side(operand) ==
    CASE operand.kind = "Deref" -> 1
      [] operand.kind = "DoubleDeref" -> 1
      [] operand.kind = "Immediate" -> 2
      [] operand.kind = "BinOp" ->
            IF operand.op.a.kind = "Immediate" \/ operand.op.b.kind = "Immediate"
            THEN 2 ELSE 1

\* The size with the costs of the two sub-operands of a BinOp summed.
op_size_summed(operand) ==
    CASE operand.kind = "Deref" -> 1
      [] operand.kind = "DoubleDeref" -> 1
      [] operand.kind = "Immediate" -> 2
      [] operand.kind = "BinOp" ->
            (IF operand.op.a.kind = "Immediate" THEN 2 ELSE 1)
                + (IF operand.op.b.kind = "Immediate" THEN 2 ELSE 1)

op_size_based_on_res_operands(operand) ==
    CASE operand.kind = "Deref" -> 1
      [] operand.kind = "DoubleDeref" -> 1
      [] operand.kind = "Immediate" -> 2
      [] operand.kind = "BinOp" ->
            CASE operand.op.b.kind = "Immediate" -> 2
              [] operand.op.b.kind = "Deref" -> 1

\* An assert sized as if its right side always held an immediate.
AssertEqInstruction_op_size_Wide(insn) == 2

AssertEqInstruction_op_size(insn) == op_size_based_on_res_operands(insn.b)

RetInstruction_op_size == 1

AddApInstruction_op_size(insn) == op_size_based_on_res_operands(insn.operand)

\* A blake2s instruction sized as one word per operand cell.
Blake2sCompressInstruction_op_size_PerCell(insn) == 3

Blake2sCompressInstruction_op_size(insn) == 1

InstructionBody_op_size(body) ==
    CASE body.tag = "AddAp" -> AddApInstruction_op_size(body.insn)
      [] body.tag \in {"AssertEq", "QM31AssertEq"} -> AssertEqInstruction_op_size(body.insn)
      [] body.tag = "Call" -> CallInstruction_op_size(body.insn)
      [] body.tag = "Jump" -> JumpInstruction_op_size(body.insn)
      [] body.tag = "Jnz" -> JnzInstruction_op_size(body.insn)
      [] body.tag = "Ret" -> RetInstruction_op_size
      [] body.tag = "Blake2sCompress" -> Blake2sCompressInstruction_op_size(body.insn)

(***************************************************************************)
(* The literal pieces of the format strings, one character per element.     *)
(***************************************************************************)

\* "x = 1"
HT1 == <<"x", " ", "=", " ", "1">>

\* "\ny\n"
HT2 == <<"\n", "y", "\n">>

\* "true"
L_true == <<"t", "r", "u", "e">>

\* "false"
L_false == <<"f", "a", "l", "s", "e">>

\* "call "
L_call == <<"c", "a", "l", "l", " ">>

\* "jmp "
L_jmp == <<"j", "m", "p", " ">>

\* "rel"
L_rel == <<"r", "e", "l">>

\* "abs"
L_abs == <<"a", "b", "s">>

\* "jmp rel "
L_jmp_rel == <<"j", "m", "p", " ", "r", "e", "l", " ">>

\* " if "
L_if == <<" ", "i", "f", " ">>

\* " != 0"
L_ne_0 == <<" ", "!", "=", " ", "0">>

\* " = "
L_eq == <<" ", "=", " ">>

\* "ret"
L_ret == <<"r", "e", "t">>

\* "ap += "
L_ap_add == <<"a", "p", " ", "+", "=", " ">>

\* "blake2s[state="
L_blake2s_state == <<"b", "l", "a", "k", "e", "2", "s", "[", "s", "t", "a", "t", "e", "=">>

\* ", message="
L_message == <<",", " ", "m", "e", "s", "s", "a", "g", "e", "=">>

\* ", byte_count="
L_byte_count == <<",", " ", "b", "y", "t", "e", "_", "c", "o", "u", "n", "t", "=">>

\* ", finalize="
L_finalize == <<",", " ", "f", "i", "n", "a", "l", "i", "z", "e", "=">>

\* "] => [ap + 0]"
L_to_ap0 == <<"]", " ", "=", ">", " ", "[", "a", "p", " ", "+", " ", "0", "]">>

\* "{QM31} "
L_QM31 == <<"{", "Q", "M", "3", "1", "}", " ">>

\* ", ap++"
L_ap_inc == <<",", " ", "a", "p", "+", "+">>

(***************************************************************************)
(* Hints (crate::hints) and Instruction.                                    *)
(***************************************************************************)

\* The texts hints render to: "x = 1", a multi-line text that starts with a
\* newline, and the empty text.
HintTexts == {HT1, HT2, <<>>}

\* Hint: a value that exposes its text.
Hint == [code : HintTexts]

get_pythonic_hint(hint) == hint.code

\* Vec<Hint> of at most MaxHints hints.
HintSeqs == UNION {[1..n -> Hint] : n \in 0..MaxHints}

Instruction == [body : InstructionBody, inc_ap : BOOLEAN, hints : HintSeqs]

\* The instructions of the programs the layout pass is run over: every body,
\* with and without ap++, with no hint or one.
LayoutInputs ==
    {[body |-> body, inc_ap |-> inc_ap, hints |-> hints] :
        body \in InstructionBody, inc_ap \in BOOLEAN,
        hints \in {<<>>} \cup {<<h>> : h \in Hint}}

Instruction_new(body, inc_ap) == [body |-> body, inc_ap |-> inc_ap, hints |-> <<>>]

(***************************************************************************)
(* Display: the operands' renderings.                                       *)
(***************************************************************************)

CellRef_fmt(cell) ==
    <<"[">> \o (IF cell.register = "ap" THEN <<"a", "p">> ELSE <<"f", "p">>)
        \o (CASE cell.offset = 0 -> <<"+", "0">>
              [] cell.offset = -1 -> <<"-", "1">>)
        \o <<"]">>

Immediate_fmt(value) ==
    CASE value = 0 -> <<"0">>
      [] value = 17 -> <<"1", "7">>

DerefOrImmediate_fmt(operand) ==
    CASE operand.kind = "Deref" -> CellRef_fmt(operand.cell)
      [] operand.kind = "Immediate" -> Immediate_fmt(operand.value)

ResOperand_fmt(operand) ==
    CASE operand.kind = "Deref" -> CellRef_fmt(operand.cell)
      [] operand.kind = "DoubleDeref" ->
            <<"[">> \o CellRef_fmt(operand.cell) \o <<"+", "1", "]">>
      [] operand.kind = "Immediate" -> Immediate_fmt(operand.value)
      [] operand.kind = "BinOp" ->
            DerefOrImmediate_fmt(operand.op.a)
                \o (IF operand.op.op = "Add" THEN <<" ", "+", " ">> ELSE <<" ", "*", " ">>)
                \o DerefOrImmediate_fmt(operand.op.b)

\* Display of bool.
bool_fmt(b) == IF b THEN L_true ELSE L_false

(***************************************************************************)
(* Display: the instructions.                                               *)
(***************************************************************************)

\* "call {} {}" with the two mnemonics exchanged.
CallInstruction_fmt_Swapped(insn) ==
    L_call \o (IF insn.relative THEN L_abs ELSE L_rel) \o <<" ">>
        \o DerefOrImmediate_fmt(insn.target)

CallInstruction_fmt(insn) ==
    L_call \o (IF insn.relative THEN L_rel ELSE L_abs) \o <<" ">>
        \o DerefOrImmediate_fmt(insn.target)

JumpInstruction_fmt(insn) ==
    L_jmp \o (IF insn.relative THEN L_rel ELSE L_abs) \o <<" ">>
        \o DerefOrImmediate_fmt(insn.target)

JnzInstruction_fmt(insn) ==
    L_jmp_rel \o DerefOrImmediate_fmt(insn.jump_offset) \o L_if
        \o CellRef_fmt(insn.condition) \o L_ne_0

AssertEqInstruction_fmt(insn) == CellRef_fmt(insn.a) \o L_eq \o ResOperand_fmt(insn.b)

RetInstruction_fmt == L_ret

AddApInstruction_fmt(insn) == L_ap_add \o ResOperand_fmt(insn.operand)

Blake2sCompressInstruction_fmt(insn) ==
    L_blake2s_state \o CellRef_fmt(insn.state)
        \o L_message \o CellRef_fmt(insn.message)
        \o L_byte_count \o CellRef_fmt(insn.byte_count)
        \o L_finalize \o bool_fmt(insn.finalize)
        \o L_to_ap0

InstructionBody_fmt(body) ==
    CASE body.tag = "AddAp" -> AddApInstruction_fmt(body.insn)
      [] body.tag = "AssertEq" -> AssertEqInstruction_fmt(body.insn)
      [] body.tag = "QM31AssertEq" -> L_QM31 \o AssertEqInstruction_fmt(body.insn)
      [] body.tag = "Call" -> CallInstruction_fmt(body.insn)
      [] body.tag = "Jnz" -> JnzInstruction_fmt(body.insn)
      [] body.tag = "Jump" -> JumpInstruction_fmt(body.insn)
      [] body.tag = "Ret" -> RetInstruction_fmt
      [] body.tag = "Blake2sCompress" -> Blake2sCompressInstruction_fmt(body.insn)

starts_with_newline(str) == Len(str) > 0 /\ str[1] = "\n"

\* One hint line wrapped without looking at the text's first character.
hint_line_AlwaysSpaced(hint_str) == <<"%", "{", " ">> \o hint_str \o <<" ", "%", "}", "\n">>

\* The line written for one hint by the loop of Instruction's fmt.
hint_line(hint_str) ==
    IF starts_with_newline(hint_str)
    THEN <<"%", "{">> \o hint_str \o <<"%", "}", "\n">>
    ELSE <<"%", "{", " ">> \o hint_str \o <<" ", "%", "}", "\n">>

RECURSIVE hint_lines(_)
\* The loop of Instruction's fmt: the lines of the hints, first to last.
hint_lines(hints) ==
    IF hints = <<>> THEN <<>>
    ELSE hint_line(get_pythonic_hint(Head(hints))) \o hint_lines(Tail(hints))

\* Instruction's fmt with the hints written after the body.
Instruction_fmt_HintsLast(self) ==
    InstructionBody_fmt(self.body)
        \o (IF self.inc_ap THEN L_ap_inc ELSE <<>>)
        \o <<"\n">> \o hint_lines(self.hints)

Instruction_fmt(self) ==
    hint_lines(self.hints)
        \o InstructionBody_fmt(self.body)
        \o (IF self.inc_ap THEN L_ap_inc ELSE <<>>)

(***************************************************************************)
(* #[derive(PartialEq, Clone)]: equality compares the variant and then the  *)
(* fields, in declaration order; a Vec compares its length and elements.    *)
(***************************************************************************)

Vec_eq(xs, ys) == Len(xs) = Len(ys) /\ \A i \in 1..Len(xs) : xs[i] = ys[i]

InstructionBody_eq(x, y) ==
    /\ x.tag = y.tag
    /\ CASE x.tag = "AddAp" -> x.insn.operand = y.insn.operand
         [] x.tag \in {"AssertEq", "QM31AssertEq"} ->
                x.insn.a = y.insn.a /\ x.insn.b = y.insn.b
         [] x.tag \in {"Call", "Jump"} ->
                x.insn.target = y.insn.target /\ x.insn.relative = y.insn.relative
         [] x.tag = "Jnz" ->
                x.insn.jump_offset = y.insn.jump_offset
                    /\ x.insn.condition = y.insn.condition
         [] x.tag = "Ret" -> TRUE
         [] x.tag = "Blake2sCompress" ->
                /\ x.insn.state = y.insn.state
                /\ x.insn.byte_count = y.insn.byte_count
                /\ x.insn.message = y.insn.message
                /\ x.insn.finalize = y.insn.finalize

\* An equality that takes the hints as a set: their order and number are lost.
Instruction_eq_HintSet(x, y) ==
    /\ InstructionBody_eq(x.body, y.body)
    /\ x.inc_ap = y.inc_ap
    /\ {x.hints[i] : i \in 1..Len(x.hints)} = {y.hints[i] : i \in 1..Len(y.hints)}

Instruction_eq(x, y) ==
    /\ InstructionBody_eq(x.body, y.body)
    /\ x.inc_ap = y.inc_ap
    /\ Vec_eq(x.hints, y.hints)

Instruction_clone(x) ==
    [body |-> x.body, inc_ap |-> x.inc_ap, hints |-> [i \in 1..Len(x.hints) |-> x.hints[i]]]

(***************************************************************************)
(* The instructions an instruction is compared with: built on their own     *)
(* from the parts of the first, one part changed or none.                   *)
(***************************************************************************)

Reverse(xs) == [i \in 1..Len(xs) |-> xs[Len(xs) + 1 - i]]

OtherTag(tag) ==
    CASE tag = "AssertEq" -> "QM31AssertEq"
      [] tag = "QM31AssertEq" -> "AssertEq"
      [] tag = "Call" -> "Jump"
      [] tag = "Jump" -> "Call"
      [] OTHER -> tag

Comparands(x) ==
    {Instruction_clone(x),
     [x EXCEPT !.hints = Reverse(x.hints)],
     [x EXCEPT !.inc_ap = ~x.inc_ap],
     [x EXCEPT !.body.tag = OtherTag(x.body.tag)]}
        \cup {[x EXCEPT !.hints = Append(SubSeq(x.hints, 1, Len(x.hints) - 1), h)] :
                h \in (IF x.hints = <<>> THEN {} ELSE Hint)}

(***************************************************************************)
(* The state: the instruction codegen is building or has built, the result  *)
(* of the last query made of it, and the layout pass's offsets.             *)
(***************************************************************************)
VARIABLES
    pc,       \* "idle", or the last thing done with insn
    insn,     \* the instruction, NoInstruction when idle
    operand,  \* the res operand op_size_based_on_res_operands was called with
    size,     \* the word count the last size query returned, 0 when none
    text,     \* the text the last rendering produced
    other,    \* the instruction insn was last compared with
    eq,       \* what that comparison returned
    starts,   \* the start offset of each instruction laid out so far
    total     \* the sum of their sizes: the next start offset

vars == <<pc, insn, operand, size, text, other, eq, starts, total>>

NoInstruction == [body |-> [tag |-> "None"], inc_ap |-> FALSE, hints |-> <<>>]

NoOperand == [kind |-> "None"]

Init ==
    /\ pc = "idle"
    /\ insn = NoInstruction
    /\ operand = NoOperand
    /\ size = 0
    /\ text = <<>>
    /\ other = NoInstruction
    /\ eq = FALSE
    /\ starts = <<>>
    /\ total = 0

\* No result of a query is held.
NoResult ==
    /\ operand' = NoOperand
    /\ size' = 0
    /\ text' = <<>>
    /\ other' = NoInstruction
    /\ eq' = FALSE

\* Instruction::new(body, inc_ap).
New(body, inc_ap) ==
    /\ pc = "idle"
    /\ starts = <<>>
    /\ insn' = Instruction_new(body, inc_ap)
    /\ pc' = "built"
    /\ NoResult
    /\ UNCHANGED <<starts, total>>

\* Codegen attaches a hint: a push on the public field hints.
AddHint(hint) ==
    /\ pc = "built"
    /\ Len(insn.hints) < MaxHints
    /\ insn' = [insn EXCEPT !.hints = Append(@, hint)]
    /\ UNCHANGED <<pc, operand, size, text, other, eq, starts, total>>

\* insn.body.op_size().
OpSize ==
    /\ pc \notin {"idle", "sized", "res_sized"}
    /\ size' = InstructionBody_op_size(insn.body)
    /\ pc' = "sized"
    /\ operand' = NoOperand
    /\ text' = <<>>
    /\ other' = NoInstruction
    /\ eq' = FALSE
    /\ UNCHANGED <<insn, starts, total>>

\* op_size_based_on_res_operands(&operand), called on its own.
ResSize(res) ==
    /\ pc = "idle"
    /\ starts = <<>>
    /\ operand' = res
    /\ size' = op_size_based_on_res_operands(res)
    /\ pc' = "res_sized"
    /\ UNCHANGED <<insn, text, other, eq, starts, total>>

\* format!("{}", insn).
Render ==
    /\ pc \notin {"idle", "rendered", "res_sized"}
    /\ text' = Instruction_fmt(insn)
    /\ pc' = "rendered"
    /\ operand' = NoOperand
    /\ size' = 0
    /\ other' = NoInstruction
    /\ eq' = FALSE
    /\ UNCHANGED <<insn, starts, total>>

\* insn == o, for an o built on its own.
Compare(o) ==
    /\ pc \notin {"idle", "compared", "res_sized"}
    /\ other' = o
    /\ eq' = Instruction_eq(insn, o)
    /\ pc' = "compared"
    /\ operand' = NoOperand
    /\ size' = 0
    /\ text' = <<>>
    /\ UNCHANGED <<insn, starts, total>>

\* The layout pass, run over a program once codegen is idle, places the
\* program's next instruction at the next offset and moves past it.
Layout(next) ==
    /\ pc = "idle"
    /\ Len(starts) < MaxProgram
    /\ starts' = Append(starts, total)
    /\ total' = total + InstructionBody_op_size(next.body)
    /\ UNCHANGED <<pc, insn, operand, size, text, other, eq>>

\* The instruction, or the operand, goes out of scope.
Drop ==
    /\ pc # "idle"
    /\ pc' = "idle"
    /\ insn' = NoInstruction
    /\ NoResult
    /\ UNCHANGED <<starts, total>>

\* The layout pass starts on another program.
NewProgram ==
    /\ pc = "idle"
    /\ starts # <<>>
    /\ starts' = <<>>
    /\ total' = 0
    /\ UNCHANGED <<pc, insn, operand, size, text, other, eq>>

Next ==
    \/ \E body \in InstructionBody, inc_ap \in BOOLEAN : New(body, inc_ap)
    \/ \E hint \in Hint : AddHint(hint)
    \/ OpSize
    \/ \E res \in ResOperand : ResSize(res)
    \/ Render
    \/ \E o \in Comparands(insn) : Compare(o)
    \/ \E next \in LayoutInputs : Layout(next)
    \/ Drop
    \/ NewProgram

Spec == Init /\ [][Next]_vars

(***************************************************************************)
(* The texts the claims name, one character per element.                    *)
(***************************************************************************)

\* ", ap++"
AP_INC == <<",", " ", "a", "p", "+", "+">>

\* "x = 1"
X_EQ_1 == <<"x", " ", "=", " ", "1">>

\* "\ny\n"
NL_Y_NL == <<"\n", "y", "\n">>

\* "%{ x = 1 %}\n%{\ny\n%}\nret, ap++"
C5_TEXT == <<"%", "{", " ", "x", " ", "=", " ", "1", " ", "%", "}", "\n", "%", "{", "\n", "y", "\n", "%", "}", "\n", "r", "e", "t", ",", " ", "a", "p", "+", "+">>

\* "%{\ny\n%}\n%{ x = 1 %}\n"
C6_TEXT == <<"%", "{", "\n", "y", "\n", "%", "}", "\n", "%", "{", " ", "x", " ", "=", " ", "1", " ", "%", "}", "\n">>

\* "jmp rel [fp-1], ap++"
C7_TEXT == <<"j", "m", "p", " ", "r", "e", "l", " ", "[", "f", "p", "-", "1", "]", ",", " ", "a", "p", "+", "+">>

\* "ap += "
G_AP_ADD == <<"a", "p", " ", "+", "=", " ">>

\* " = "
G_EQ == <<" ", "=", " ">>

\* "{QM31} "
G_QM31 == <<"{", "Q", "M", "3", "1", "}", " ">>

\* "call rel "
G_CALL_REL == <<"c", "a", "l", "l", " ", "r", "e", "l", " ">>

\* "call abs "
G_CALL_ABS == <<"c", "a", "l", "l", " ", "a", "b", "s", " ">>

\* "jmp rel "
G_JMP_REL == <<"j", "m", "p", " ", "r", "e", "l", " ">>

\* "jmp abs "
G_JMP_ABS == <<"j", "m", "p", " ", "a", "b", "s", " ">>

\* " if "
G_IF == <<" ", "i", "f", " ">>

\* " != 0"
G_NE_0 == <<" ", "!", "=", " ", "0">>

\* "ret"
G_RET == <<"r", "e", "t">>

\* "blake2s[state="
G_BLAKE_STATE == <<"b", "l", "a", "k", "e", "2", "s", "[", "s", "t", "a", "t", "e", "=">>

\* ", message="
G_MESSAGE == <<",", " ", "m", "e", "s", "s", "a", "g", "e", "=">>

\* ", byte_count="
G_BYTE_COUNT == <<",", " ", "b", "y", "t", "e", "_", "c", "o", "u", "n", "t", "=">>

\* ", finalize="
G_FINALIZE == <<",", " ", "f", "i", "n", "a", "l", "i", "z", "e", "=">>

\* "true"
G_TRUE == <<"t", "r", "u", "e">>

\* "false"
G_FALSE == <<"f", "a", "l", "s", "e">>

\* "] => [ap + 0]"
G_TO_AP0 == <<"]", " ", "=", ">", " ", "[", "a", "p", " ", "+", " ", "0", "]">>

(***************************************************************************)
(* The size claims.                                                         *)
(***************************************************************************)

\* The words one sub-operand takes on its own: 2 for an immediate, 1 for a cell.
Cost(sub) == IF sub.kind = "Immediate" THEN 2 ELSE 1

SizeLaw(res) ==
    CASE res.kind \in {"Deref", "DoubleDeref"} -> 1
      [] res.kind = "Immediate" -> 2
      [] res.kind = "BinOp" -> Cost(res.op.b)

\* C2: the size of an AddAp, AssertEq or QM31AssertEq body is the size law of
\* its one result operand (operand of AddAp, b of the asserts); the left cell
\* a of an assert does not change it, and AssertEq and QM31AssertEq of one
\* payload have one size.
C2_SizedByResultOperand ==
    (pc = "sized" /\ insn.body.tag \in {"AddAp", "AssertEq", "QM31AssertEq"}) =>
        IF insn.body.tag = "AddAp"
        THEN size = SizeLaw(insn.body.insn.operand)
        ELSE /\ size = SizeLaw(insn.body.insn.b)
             /\ \A a \in CellRef, tag \in {"AssertEq", "QM31AssertEq"} :
                    InstructionBody_op_size(
                        [tag |-> tag, insn |-> [a |-> a, b |-> insn.body.insn.b]]) = size

\* A QM31AssertEq whose right side is a double dereference has been sized, to 1.
C2_Witness ==
    /\ pc = "sized"
    /\ insn.body.tag = "QM31AssertEq"
    /\ insn.body.insn.b.kind = "DoubleDeref"
    /\ size = 1

\* The operand that decides the size of a Call, Jump or Jnz body.
SizingOperand(body) ==
    IF body.tag = "Jnz" THEN body.insn.jump_offset ELSE body.insn.target

\* C3: the size of a Call, Jump or Jnz body is 1 iff its target (jump offset
\* of a Jnz) is a cell reference and 2 iff it is an immediate; the relative
\* flag of a Call or Jump and the condition cell of a Jnz do not change it.
C3_SizedByTarget ==
    (pc = "sized" /\ insn.body.tag \in {"Call", "Jump", "Jnz"}) =>
        /\ size = 1 <=> SizingOperand(insn.body).kind = "Deref"
        /\ size = 2 <=> SizingOperand(insn.body).kind = "Immediate"
        /\ insn.body.tag \in {"Call", "Jump"} =>
                InstructionBody_op_size(
                    [insn.body EXCEPT !.insn.relative = ~insn.body.insn.relative]) = size
        /\ insn.body.tag = "Jnz" =>
                \A cell \in CellRef :
                    InstructionBody_op_size(
                        [insn.body EXCEPT !.insn.condition = cell]) = size

\* An absolute call to the immediate 17 has been sized, to 2.
C3_Witness ==
    /\ pc = "sized"
    /\ insn.body = [tag |-> "Call",
                    insn |-> [target |-> [kind |-> "Immediate", value |-> 17],
                              relative |-> FALSE]]
    /\ size = 2

\* C4: the size of a Ret body is 1, and the size of a Blake2sCompress body is
\* 1 whatever its cells and its finalize flag.
C4_RetAndBlake2sAreOneWord ==
    (pc = "sized" /\ insn.body.tag \in {"Ret", "Blake2sCompress"}) => size = 1

\* A finalizing Blake2sCompress whose cells differ has been sized, to 1.
C4_Witness ==
    /\ pc = "sized"
    /\ insn.body.tag = "Blake2sCompress"
    /\ insn.body.insn.finalize
    /\ insn.body.insn.state # insn.body.insn.message
    /\ size = 1

\* Whether a result operand holds an immediate anywhere.
IncludesImmediate(res) ==
    \/ res.kind = "Immediate"
    \/ res.kind = "BinOp"
        /\ (res.op.a.kind = "Immediate" \/ res.op.b.kind = "Immediate")

C10_SizeIsOneOrTwo ==
    /\ pc = "sized" =>
        /\ size \in {1, 2}
        /\ size = InstructionBody_op_size(Instruction_new(insn.body, ~insn.inc_ap).body)
    /\ \A i \in 1..Len(starts) :
        /\ i = 1 => starts[i] = 0
        /\ i > 1 => starts[i] - starts[i - 1] \in {1, 2}
        /\ i = Len(starts) => total - starts[i] \in {1, 2}
    /\ Len(starts) <= total
    /\ total <= 2 * Len(starts)

\* Two instructions have been laid out, the first of two words and the second
\* of one.
C10_Witness ==
    /\ Len(starts) >= 2
    /\ starts[1] = 0
    /\ starts[2] = 2
    /\ total = 3

(***************************************************************************)
(* The rendering claims.                                                    *)
(***************************************************************************)

\* The length of the line of a hint whose text is str: the text, "%{", "%}",
\* the newline, and the two spaces unless the text starts with a newline.
LineLen(str) == Len(str) + (IF Len(str) > 0 /\ str[1] = "\n" THEN 5 ELSE 7)

RECURSIVE LinesLen(_, _)
\* The length of the lines of the first k hints.
LinesLen(hints, k) ==
    IF k = 0 THEN 0 ELSE LinesLen(hints, k - 1) + LineLen(hints[k].code)

\* The part of the text that is the line of hint i.
Line(i) == SubSeq(text, LinesLen(insn.hints, i - 1) + 1, LinesLen(insn.hints, i))

\* The part of the text after the lines of the hints.
AfterHints == SubSeq(text, LinesLen(insn.hints, Len(insn.hints)) + 1, Len(text))

\* C5: the rendering of an instruction is one line per hint, each ended by a
\* newline, in the order of the hints; then the body's text; then ", ap++" iff
\* inc_ap is set; and nothing more, so it never ends with a newline.
C5_HintsThenBodyThenSuffix ==
    pc = "rendered" =>
        /\ \A i \in 1..Len(insn.hints) :
            /\ Line(i) = hint_line(get_pythonic_hint(insn.hints[i]))
            /\ Line(i)[Len(Line(i))] = "\n"
        /\ AfterHints =
            InstructionBody_fmt(insn.body) \o (IF insn.inc_ap THEN AP_INC ELSE <<>>)
        /\ text[Len(text)] # "\n"

\* A ret with ap++ and two hints, the multi-line one second, has been rendered.
C5_Witness ==
    /\ pc = "rendered"
    /\ insn.body.tag = "Ret"
    /\ insn.inc_ap
    /\ Len(insn.hints) = 2
    /\ insn.hints[1].code = X_EQ_1
    /\ insn.hints[2].code = NL_Y_NL
    /\ text = C5_TEXT

\* C6: the line of a hint whose text T does not start with a newline is
\* "%{ T %}", and the line of a hint whose text T starts with a newline is
\* "%{" T "%}" with no space inside.
C6_HintLineWrap ==
    pc = "rendered" =>
        \A i \in 1..Len(insn.hints) :
            LET T == insn.hints[i].code
            IN  IF Len(T) > 0 /\ T[1] = "\n"
                THEN Line(i) = <<"%", "{">> \o T \o <<"%", "}", "\n">>
                ELSE Line(i) = <<"%", "{", " ">> \o T \o <<" ", "%", "}", "\n">>

\* An instruction whose first hint is multi-line and whose second is "x = 1"
\* has been rendered.
C6_Witness ==
    /\ pc = "rendered"
    /\ Len(insn.hints) = 2
    /\ insn.hints[1].code = NL_Y_NL
    /\ insn.hints[2].code = X_EQ_1
    /\ SubSeq(text, 1, 20) = C6_TEXT

\* The mnemonic grammar, variant by variant.
Grammar(body) ==
    CASE body.tag = "AddAp" -> G_AP_ADD \o ResOperand_fmt(body.insn.operand)
      [] body.tag = "AssertEq" ->
            CellRef_fmt(body.insn.a) \o G_EQ \o ResOperand_fmt(body.insn.b)
      [] body.tag = "QM31AssertEq" ->
            G_QM31 \o CellRef_fmt(body.insn.a) \o G_EQ \o ResOperand_fmt(body.insn.b)
      [] body.tag = "Call" ->
            (IF body.insn.relative THEN G_CALL_REL ELSE G_CALL_ABS)
                \o DerefOrImmediate_fmt(body.insn.target)
      [] body.tag = "Jump" ->
            (IF body.insn.relative THEN G_JMP_REL ELSE G_JMP_ABS)
                \o DerefOrImmediate_fmt(body.insn.target)
      [] body.tag = "Jnz" ->
            G_JMP_REL \o DerefOrImmediate_fmt(body.insn.jump_offset) \o G_IF
                \o CellRef_fmt(body.insn.condition) \o G_NE_0
      [] body.tag = "Ret" -> G_RET
      [] body.tag = "Blake2sCompress" ->
            G_BLAKE_STATE \o CellRef_fmt(body.insn.state)
                \o G_MESSAGE \o CellRef_fmt(body.insn.message)
                \o G_BYTE_COUNT \o CellRef_fmt(body.insn.byte_count)
                \o G_FINALIZE \o (IF body.insn.finalize THEN G_TRUE ELSE G_FALSE)
                \o G_TO_AP0

\* C7: the body's text follows the mnemonic grammar, each operand's own
\* rendering put in as it is; a relative Jump to [fp-1] with ap++ and no hints
\* renders to "jmp rel [fp-1], ap++".
C7_MnemonicGrammar ==
    pc = "rendered" =>
        /\ AfterHints = Grammar(insn.body) \o (IF insn.inc_ap THEN AP_INC ELSE <<>>)
        /\ insn = [body |-> [tag |-> "Jump",
                             insn |-> [target |-> [kind |-> "Deref",
                                                   cell |-> [register |-> "fp",
                                                             offset |-> -1]],
                                       relative |-> TRUE]],
                   inc_ap |-> TRUE, hints |-> <<>>]
            => text = C7_TEXT

\* The relative Jump to [fp-1] with ap++ and no hints has been rendered.
C7_Witness ==
    /\ pc = "rendered"
    /\ insn.body.tag = "Jump"
    /\ insn.body.insn.relative
    /\ insn.inc_ap
    /\ insn.hints = <<>>
    /\ text = C7_TEXT

(***************************************************************************)
(* The equality claim.                                                      *)
(***************************************************************************)

\* C8: two instructions are equal iff they have the same body, the same
\* inc_ap and the same hints in the same order, also when built on their own:
\* a copy is equal; hints in another order, another body variant over the same
\* payload, another inc_ap or another hint make them unequal.
C8_StructuralEquality ==
    pc = "compared" =>
        /\ eq <=> (/\ other.body = insn.body
                   /\ other.inc_ap = insn.inc_ap
                   /\ other.hints = insn.hints)
        /\ (other.hints = Reverse(insn.hints) /\ Reverse(insn.hints) # insn.hints) => ~eq
        /\ (other.body.tag # insn.body.tag) => ~eq
        /\ (\E i \in 1..Len(insn.hints) : other.hints[i] # insn.hints[i]) => ~eq

\* An instruction with two different hints has been compared with the one that
\* has them in the other order, and found unequal.
C8_Witness ==
    /\ pc = "compared"
    /\ Len(insn.hints) = 2
    /\ insn.hints[1] # insn.hints[2]
    /\ other = [insn EXCEPT !.hints = <<insn.hints[2], insn.hints[1]>>]
    /\ ~eq

====
